---------------------------- MODULE Spec2Model ----------------------------
(***************************************************************************)
(* Baseline JPEG encoder (stb_image_write.h, JPEG-only cut) and the        *)
(* ImageProcessor glue around it (image_processor.cpp).                    *)
(*                                                                         *)
(* Six state machines share this module:                                   *)
(*   Spec         one call of stbi_write_jpg_to_func, stepped per MCU and  *)
(*                per data unit;                                           *)
(*   SpecHuffman  stbiw__jpg_buildHuffmanTable, stepped per loop turn;     *)
(*   SpecBlock    the entropy coding of stbiw__jpg_processDU on one block; *)
(*   SpecBits     a sequence of stbiw__jpg_writeBits calls and the fill;   *)
(*   SpecBase64   base64Encode followed by base64Decode;                   *)
(*   SpecConfig   setConfig / setLowMemory threads against one             *)
(*                processAndEncode call.                                   *)
(*                                                                         *)
(* C arrays are 0-based: a table T is a tuple and At(T, i) is T[i].        *)
(* Floating point values are not computed.  A quantization reciprocal is   *)
(* kept as the record of the integers it is built from, and the quantized  *)
(* coefficients of a data unit are taken from a bounded family of blocks.  *)
(***************************************************************************)
EXTENDS Integers, Sequences, FiniteSets

At(T, i) == T[i + 1]

Min(a, b) == IF a < b THEN a ELSE b

Pow2(n) == 2 ^ n

\* x >> n on a non-negative x
Shr(x, n) == x \div Pow2(n)

\* the low 24 bits of x << n.  bitBuf is an int of which only bits 0..23 are ever
\* read: (bitBuf >> 16) & 255 reads bits 16..23 and shifts only move bits up, so
\* the model keeps bitBuf to these 24 bits.
Shl24(x, n) == (x % Pow2(24 - n)) * Pow2(n)

RECURSIVE BitOr(_, _)
BitOr(a, b) ==
    IF a = 0 THEN b
    ELSE IF b = 0 THEN a
    ELSE (IF a % 2 = 1 \/ b % 2 = 1 THEN 1 ELSE 0) + 2 * BitOr(a \div 2, b \div 2)

(***************************************************************************)
(* Constant tables                                                         *)
(***************************************************************************)
stbiw__jpg_ZigZag ==
    << 0, 1, 5, 6, 14, 15, 27, 28, 2, 4, 7, 13, 16, 26, 29, 42, 3, 8, 12, 17, 25, 30,
       41, 43, 9, 11, 18, 24, 31, 40, 44, 53, 10, 19, 23, 32, 39, 45, 52, 54, 20, 22,
       33, 38, 46, 51, 55, 60, 21, 34, 37, 47, 50, 56, 59, 61, 35, 36, 48, 49, 57, 58,
       62, 63 >>

stbiw__jpg_std_dc_luminance_nrcodes ==
    << 0, 0, 1, 5, 1, 1, 1, 1, 1, 1, 0, 0, 0, 0, 0, 0, 0 >>

stbiw__jpg_std_dc_luminance_values ==
    << 0, 1, 2, 3, 4, 5, 6, 7, 8, 9, 10, 11 >>

stbiw__jpg_std_ac_luminance_nrcodes ==
    << 0, 0, 2, 1, 3, 3, 2, 4, 3, 5, 5, 4, 4, 0, 0, 1, 125 >>

stbiw__jpg_std_ac_luminance_values ==
    << 1, 2, 3, 0, 4, 17, 5, 18, 33, 49, 65, 6, 19, 81, 97, 7, 34, 113, 20, 50, 129,
       145, 161, 8, 35, 66, 177, 193, 21, 82, 209, 240, 36, 51, 98, 114, 130, 9, 10, 22,
       23, 24, 25, 26, 37, 38, 39, 40, 41, 42, 52, 53, 54, 55, 56, 57, 58, 67, 68, 69,
       70, 71, 72, 73, 74, 83, 84, 85, 86, 87, 88, 89, 90, 99, 100, 101, 102, 103, 104,
       105, 106, 115, 116, 117, 118, 119, 120, 121, 122, 131, 132, 133, 134, 135, 136,
       137, 138, 146, 147, 148, 149, 150, 151, 152, 153, 154, 162, 163, 164, 165, 166,
       167, 168, 169, 170, 178, 179, 180, 181, 182, 183, 184, 185, 186, 194, 195, 196,
       197, 198, 199, 200, 201, 202, 210, 211, 212, 213, 214, 215, 216, 217, 218, 225,
       226, 227, 228, 229, 230, 231, 232, 233, 234, 241, 242, 243, 244, 245, 246, 247,
       248, 249, 250 >>

stbiw__jpg_std_dc_chrominance_nrcodes ==
    << 0, 0, 3, 1, 1, 1, 1, 1, 1, 1, 1, 1, 0, 0, 0, 0, 0 >>

stbiw__jpg_std_dc_chrominance_values ==
    << 0, 1, 2, 3, 4, 5, 6, 7, 8, 9, 10, 11 >>

stbiw__jpg_std_ac_chrominance_nrcodes ==
    << 0, 0, 2, 1, 2, 4, 4, 3, 4, 7, 5, 4, 4, 0, 1, 2, 119 >>

stbiw__jpg_std_ac_chrominance_values ==
    << 0, 1, 2, 3, 17, 4, 5, 33, 49, 6, 18, 65, 81, 7, 97, 113, 19, 34, 50, 129, 8, 20,
       66, 145, 161, 177, 193, 9, 35, 51, 82, 240, 21, 98, 114, 209, 10, 22, 36, 52,
       225, 37, 241, 23, 24, 25, 26, 38, 39, 40, 41, 42, 53, 54, 55, 56, 57, 58, 67, 68,
       69, 70, 71, 72, 73, 74, 83, 84, 85, 86, 87, 88, 89, 90, 99, 100, 101, 102, 103,
       104, 105, 106, 115, 116, 117, 118, 119, 120, 121, 122, 130, 131, 132, 133, 134,
       135, 136, 137, 138, 146, 147, 148, 149, 150, 151, 152, 153, 154, 162, 163, 164,
       165, 166, 167, 168, 169, 170, 178, 179, 180, 181, 182, 183, 184, 185, 186, 194,
       195, 196, 197, 198, 199, 200, 201, 202, 210, 211, 212, 213, 214, 215, 216, 217,
       218, 226, 227, 228, 229, 230, 231, 232, 233, 234, 242, 243, 244, 245, 246, 247,
       248, 249, 250 >>

YQT ==
    << 16, 11, 10, 16, 24, 40, 51, 61, 12, 12, 14, 19, 26, 58, 60, 55, 14, 13, 16, 24,
       40, 57, 69, 56, 14, 17, 22, 29, 51, 87, 80, 62, 18, 22, 37, 56, 68, 109, 103, 77,
       24, 35, 55, 64, 81, 104, 113, 92, 49, 64, 78, 87, 103, 121, 120, 101, 72, 92, 95,
       98, 112, 100, 103, 99 >>

UVQT ==
    << 17, 18, 24, 47, 99, 99, 99, 99, 18, 21, 26, 66, 99, 99, 99, 99, 24, 26, 56, 99,
       99, 99, 99, 99, 47, 66, 99, 99, 99, 99, 99, 99, 99, 99, 99, 99, 99, 99, 99, 99,
       99, 99, 99, 99, 99, 99, 99, 99, 99, 99, 99, 99, 99, 99, 99, 99, 99, 99, 99, 99,
       99, 99, 99, 99 >>

head0 ==
    << 255, 216, 255, 224, 0, 16, 74, 70, 73, 70, 0, 1, 1, 0, 0, 1, 0, 1, 0, 0, 255,
       219, 0, 132, 0 >>

head2 ==
    << 255, 218, 0, 12, 3, 1, 0, 2, 17, 3, 17, 0, 63, 0 >>

\* the four (nrcodes, values) specifications, in the order they are built
HuffSpecs ==
    << [nrcodes |-> stbiw__jpg_std_dc_luminance_nrcodes,
        values  |-> stbiw__jpg_std_dc_luminance_values],
       [nrcodes |-> stbiw__jpg_std_ac_luminance_nrcodes,
        values  |-> stbiw__jpg_std_ac_luminance_values],
       [nrcodes |-> stbiw__jpg_std_dc_chrominance_nrcodes,
        values  |-> stbiw__jpg_std_dc_chrominance_values],
       [nrcodes |-> stbiw__jpg_std_ac_chrominance_nrcodes,
        values  |-> stbiw__jpg_std_ac_chrominance_values] >>

(***************************************************************************)
(* stbiw__jpg_buildHuffmanTable                                            *)
(*                                                                         *)
(* The loop state is [j, i, k, code, htable]; htable maps each of the 256  *)
(* symbols to <<code, length>>, Unwritten where the array still holds what *)
(* the stack held.  HuffStep is one turn of the                            *)
(* loops: an assignment of the inner loop while i <= nrcodes[j], else the  *)
(* doubling that ends length j.                                            *)
(***************************************************************************)
HuffStart(h0) == [j |-> 1, i |-> 1, k |-> 0, code |-> 0, htable |-> h0]

HuffDone(s) == s.j > 16

HuffPut(h, sym, pair) == [h EXCEPT ![sym] = pair]

\* a build that forgets `code *= 2` when a length ends
HuffStepNoDouble(s, nrcodes, values) ==
    IF s.i <= At(nrcodes, s.j)
    THEN [s EXCEPT !.htable = HuffPut(s.htable, At(values, s.k),
                                      << s.code % 65536, s.j >>),
                   !.code = s.code + 1, !.k = s.k + 1, !.i = s.i + 1]
    ELSE [s EXCEPT !.j = s.j + 1, !.i = 1]

HuffStep(s, nrcodes, values) ==
    IF s.i <= At(nrcodes, s.j)
    THEN [s EXCEPT !.htable = HuffPut(s.htable, At(values, s.k),
                                      << s.code % 65536, s.j >>),
                   !.code = s.code + 1, !.k = s.k + 1, !.i = s.i + 1]
    ELSE [s EXCEPT !.code = s.code * 2, !.j = s.j + 1, !.i = 1]

\* The whole build, one outer-loop iteration per level: the inner loop of
\* length j writes (code + n, j) to the symbols values[k .. k + nrcodes[j] - 1],
\* then code = (code + nrcodes[j]) * 2.
RECURSIVE HuffLengths(_, _, _, _, _, _)
HuffLengths(j, k, code, h, nrcodes, values) ==
    IF j > 16 THEN h
    ELSE LET nr == At(nrcodes, j)
             hj == [sym \in 0 .. 255 |->
                       IF \E n \in 0 .. nr - 1 : At(values, k + n) = sym
                       THEN << (code + (CHOOSE n \in 0 .. nr - 1 :
                                           At(values, k + n) = sym)) % 65536, j >>
                       ELSE h[sym]]
         IN  HuffLengths(j + 1, k + nr, (code + nr) * 2, hj, nrcodes, values)

stbiw__jpg_buildHuffmanTable(nrcodes, values, h0) ==
    HuffLengths(1, 0, 0, h0, nrcodes, values)

\* an entry of a table nothing was written to
Unwritten == << -1, -1 >>

\* a table as declared: unsigned short XX_HT[256][2], not initialized
EmptyHT == [sym \in 0 .. 255 |-> Unwritten]

\* YDC_HT and UDC_HT have their first 64 entries zeroed by the table loop
ZeroedHT == [sym \in 0 .. 255 |-> IF sym < 64 THEN << 0, 0 >> ELSE Unwritten]

YDC_HT == stbiw__jpg_buildHuffmanTable(stbiw__jpg_std_dc_luminance_nrcodes,
                                       stbiw__jpg_std_dc_luminance_values, ZeroedHT)

YAC_HT == stbiw__jpg_buildHuffmanTable(stbiw__jpg_std_ac_luminance_nrcodes,
                                       stbiw__jpg_std_ac_luminance_values, EmptyHT)

UDC_HT == stbiw__jpg_buildHuffmanTable(stbiw__jpg_std_dc_chrominance_nrcodes,
                                       stbiw__jpg_std_dc_chrominance_values, ZeroedHT)

UAC_HT == stbiw__jpg_buildHuffmanTable(stbiw__jpg_std_ac_chrominance_nrcodes,
                                       stbiw__jpg_std_ac_chrominance_values, EmptyHT)

(***************************************************************************)
(* stbi_write_jpg_to_func: quality handling and the quantization tables    *)
(***************************************************************************)
\* quality = quality ? quality : 90;
QualityDefault(q) == IF q # 0 THEN q ELSE 90

\* subsample = quality <= 90 ? 1 : 0;   (read after the default, before the clamp)
SubsampleOf(q) == QualityDefault(q) <= 90

\* a clamp that forgets the upper limit
QualityClampNoUpper(q) == IF q < 1 THEN 1 ELSE q

\* quality = quality < 1 ? 1 : quality > 100 ? 100 : quality;
QualityClamp(q) == IF q < 1 THEN 1 ELSE IF q > 100 THEN 100 ELSE q

\* quality = quality < 50 ? 5000 / quality : 200 - quality * 2;
QualityScale(q) == IF q < 50 THEN 5000 \div q ELSE 200 - (q * 2)

\* the value the variable `quality` holds after the four assignments
ScaledQuality(q) == QualityScale(QualityClamp(QualityDefault(q)))

Clamp255(v) == IF v < 1 THEN 1 ELSE IF v > 255 THEN 255 ELSE v

\* yti / uvti of the table loop for natural index i and scale s
Divisor(base, i, s) == Clamp255(((At(base, i) * s) + 50) \div 100)

\* the natural index that the zigzag table sends to position z
UnZigZag(z) == CHOOSE i \in 0 .. 63 : At(stbiw__jpg_ZigZag, i) = z

\* fdtbl[ZigZag[i]] = 1 / (divisor(i) * aasf[i & 7] * aasf[i >> 3]): the
\* reciprocal is kept as the divisor and the two aasf indices it is made of.
BuildFdtbl(base, s) ==
    [z \in 0 .. 63 |->
        LET i == UnZigZag(z)
        IN  [div |-> Divisor(base, i, s), a |-> i % 8, b |-> i \div 8]]

(***************************************************************************)
(* The header: every func(...) call between head0 and head2, in order.     *)
(* A call is the tuple of bytes it hands to the sink.                      *)
(***************************************************************************)
Byte(x) == x % 256

head1(h, w, sub) ==
    << 255, 192, 0, 17, 8, Byte(h \div 256), Byte(h), Byte(w \div 256), Byte(w),
       3, 1, IF sub THEN 34 ELSE 17, 0, 2, 17, 1, 3, 17, 1, 255, 196, 1, 162, 0 >>

\* for (i = 0; i < 64; ++i) func(context, table + ZigZag[i], 1);
DQTCalls(table) == [n \in 1 .. 64 |-> << At(table, At(stbiw__jpg_ZigZag, n - 1)) >>]

HeaderCalls(h, w, sub) ==
    << head0 >> \o DQTCalls(YQT) \o << << 1 >> >> \o DQTCalls(UVQT)
    \o << head1(h, w, sub),
          SubSeq(stbiw__jpg_std_dc_luminance_nrcodes, 2, 17),
          stbiw__jpg_std_dc_luminance_values,
          << 16 >>,
          SubSeq(stbiw__jpg_std_ac_luminance_nrcodes, 2, 17),
          stbiw__jpg_std_ac_luminance_values,
          << 1 >>,
          SubSeq(stbiw__jpg_std_dc_chrominance_nrcodes, 2, 17),
          stbiw__jpg_std_dc_chrominance_values,
          << 17 >>,
          SubSeq(stbiw__jpg_std_ac_chrominance_nrcodes, 2, 17),
          stbiw__jpg_std_ac_chrominance_values,
          head2 >>

\* an end marker written as a second SOI
EOICallsAsSOI == << << 255, 216 >> >>

\* func(context, "\xFF\xD9", 2)
EOICalls == << << 255, 217 >> >>

\* the bytes of a sequence of calls, in order (split in halves to keep the
\* evaluation shallow)
RECURSIVE Flatten(_)
Flatten(calls) ==
    IF calls = << >> THEN << >>
    ELSE IF Len(calls) = 1 THEN calls[1]
    ELSE LET m == Len(calls) \div 2
         IN  Flatten(SubSeq(calls, 1, m)) \o Flatten(SubSeq(calls, m + 1, Len(calls)))

\* offsets in the delivered stream (1-based positions of the first table byte)
HeaderLen == Len(Flatten(HeaderCalls(1, 1, TRUE)))

YDQTPos == Len(head0) + 1

UVDQTPos == Len(head0) + 64 + 1 + 1

(***************************************************************************)
(* The sink.  stbi_write_func returns void: the sink takes the bytes of a  *)
(* call or, once it has run out of room (cap bytes, -1 for no limit),      *)
(* records that it failed.  late counts the calls made to a sink that had  *)
(* already failed.                                                         *)
(***************************************************************************)
\* A delivery is a run of calls given by `ends`: ends[i] is the number of bytes
\* handed over by the end of its i-th call.  The first call that does not fit
\* fails the sink; every call after it is late.
CallEnds(calls) == [i \in 1 .. Len(calls) |-> Len(Flatten(SubSeq(calls, 1, i)))]

SinkAfter(sk, len, cap, ends) ==
    LET m == Len(ends)
    IN  IF m = 0 THEN sk
        ELSE IF sk.failed THEN [sk EXCEPT !.late = sk.late + m]
        ELSE IF cap < 0 \/ len + ends[m] <= cap THEN sk
        ELSE LET i == CHOOSE n \in 1 .. m :
                          /\ len + ends[n] > cap
                          /\ \A r \in 1 .. n - 1 : len + ends[r] <= cap
             IN  [failed |-> TRUE,
                  at     |-> len + (IF i = 1 THEN 0 ELSE ends[i - 1]),
                  late   |-> sk.late + (m - i)]

\* the call boundaries of the header (the same for every image)
HeaderEnds == CallEnds(HeaderCalls(1, 1, TRUE))

EOIEnds == CallEnds(EOICalls)

(***************************************************************************)
(* stbiw__jpg_writeBits                                                    *)
(***************************************************************************)
\* a flush loop that forgets the stuffed zero after 0xFF
RECURSIVE FlushBitsNoStuff(_, _, _)
FlushBitsNoStuff(buf, cnt, bytes) ==
    IF cnt >= 8
    THEN LET c == Shr(buf, 16) % 256
         IN  FlushBitsNoStuff(Shl24(buf, 8), cnt - 8, bytes \o << c >>)
    ELSE [bitBuf |-> buf, bitCnt |-> cnt, bytes |-> bytes]

\* while (bitCnt >= 8) { c = (bitBuf >> 16) & 255; putc(c); if (c == 255) putc(0);
\*                       bitBuf <<= 8; bitCnt -= 8; }
RECURSIVE FlushBits(_, _, _)
FlushBits(buf, cnt, bytes) ==
    IF cnt >= 8
    THEN LET c == Shr(buf, 16) % 256
         IN  FlushBits(Shl24(buf, 8), cnt - 8,
                       bytes \o (IF c = 255 THEN << c, 0 >> ELSE << c >>))
    ELSE [bitBuf |-> buf, bitCnt |-> cnt, bytes |-> bytes]

\* a writeBits that assigns the shifted code to bitBuf instead of or-ing it in
stbiw__jpg_writeBitsAssign(w, bs) ==
    LET cnt == w.bitCnt + bs[2]
        buf == Shl24(bs[1], 24 - cnt)
    IN  FlushBits(buf, cnt, w.bytes)

\* w is [bitBuf, bitCnt, bytes]; bs is <<code, length>>
stbiw__jpg_writeBits(w, bs) ==
    LET cnt == w.bitCnt + bs[2]
        buf == BitOr(w.bitBuf, Shl24(bs[1], 24 - cnt))
    IN  FlushBits(buf, cnt, w.bytes)

RECURSIVE WriteAll(_, _)
WriteAll(w, codes) ==
    IF codes = << >> THEN w
    ELSE WriteAll(stbiw__jpg_writeBits(w, Head(codes)), Tail(codes))

fillBits == << 127, 7 >>

\* every putc is one call of func with one byte
PutcEnds(bytes) == [n \in 1 .. Len(bytes) |-> n]

(***************************************************************************)
(* stbiw__jpg_calcBits and the code sequence of stbiw__jpg_processDU       *)
(***************************************************************************)
Abs(v) == IF v < 0 THEN -v ELSE v

RECURSIVE BitLength(_)
BitLength(t) == IF t \div 2 = 0 THEN 1 ELSE 1 + BitLength(t \div 2)

stbiw__jpg_calcBits(val) ==
    LET n == BitLength(Abs(val))
        v == IF val < 0 THEN val - 1 ELSE val
    IN  << v % Pow2(n), n >>

\* end0pos = 63; for (; (end0pos>0)&&(DU[end0pos]==0); --end0pos);
End0Pos(DU) ==
    IF \E p \in 1 .. 63 : DU[p] # 0
    THEN CHOOSE p \in 1 .. 63 : DU[p] # 0 /\ \A r \in p + 1 .. 63 : DU[r] = 0
    ELSE 0

\* an AC loop without the `if (nrzeroes >= 16)` block
RECURSIVE ACCodesNoZRL(_, _, _, _)
ACCodesNoZRL(DU, HTAC, i, end0pos) ==
    IF i > end0pos THEN << >>
    ELSE LET startpos == i
             nz       == CHOOSE p \in i .. end0pos :
                             DU[p] # 0 /\ \A r \in i .. p - 1 : DU[r] = 0
             nrzeroes == nz - startpos
             bits     == stbiw__jpg_calcBits(DU[nz])
         IN  << HTAC[((nrzeroes % 16) * 16) + bits[2]], bits >>
             \o ACCodesNoZRL(DU, HTAC, nz + 1, end0pos)

RECURSIVE ACCodes(_, _, _, _)
ACCodes(DU, HTAC, i, end0pos) ==
    IF i > end0pos THEN << >>
    ELSE LET startpos == i
             nz       == CHOOSE p \in i .. end0pos :
                             DU[p] # 0 /\ \A r \in i .. p - 1 : DU[r] = 0
             nrzeroes == nz - startpos
             lng      == IF nrzeroes >= 16 THEN nrzeroes \div 16 ELSE 0
             bits     == stbiw__jpg_calcBits(DU[nz])
         IN  [m \in 1 .. lng |-> HTAC[240]]
             \o << HTAC[((nrzeroes % 16) * 16) + bits[2]], bits >>
             \o ACCodes(DU, HTAC, nz + 1, end0pos)

\* the (code, length) pairs processDU hands to writeBits, in call order
DUCodes(DU, DC, HTDC, HTAC) ==
    LET diff    == DU[0] - DC
        bitsDC  == stbiw__jpg_calcBits(diff)
        dcPart  == IF diff = 0 THEN << HTDC[0] >> ELSE << HTDC[bitsDC[2]], bitsDC >>
        end0pos == End0Pos(DU)
    IN  IF end0pos = 0 THEN dcPart \o << HTAC[0] >>
        ELSE dcPart \o ACCodes(DU, HTAC, 1, end0pos)
             \o (IF end0pos # 63 THEN << HTAC[0] >> ELSE << >>)

(***************************************************************************)
(* The samples stbiw__jpg_processDU touches, as offsets into the array the *)
(* caller passes CDU + off of.                                             *)
(***************************************************************************)
\* rows: dataOff = 0, du_stride, ... (8 times), CDU[dataOff .. dataOff+7]
RowPassIdx(off, du_stride) ==
    {off + (n * du_stride) + c : n \in 0 .. 7, c \in 0 .. 7}

\* columns: dataOff = 0 .. 7, CDU[dataOff + 8*k] for k = 0 .. 7
ColPassIdx(off, du_stride) ==
    {off + dataOff + (8 * k) : dataOff \in 0 .. 7, k \in 0 .. 7}

\* quantization: CDU[i] for i = 0 .. 63
QuantIdx(off, du_stride) == {off + i : i \in 0 .. 63}

\* v = CDU[i] * fdtbl[i]; DU[stbiw__jpg_ZigZag[i]] = round(v): for every i the
\* sample read, the reciprocal it is multiplied by and the DU position written
QuantPairs(off, fdtbl) ==
    [i \in 0 .. 63 |->
        [sample |-> off + i, recip |-> fdtbl[i], to |-> At(stbiw__jpg_ZigZag, i)]]

(***************************************************************************)
(* Pixel addressing of one MCU (the row/col loops before processDU)        *)
(***************************************************************************)
\* a column clamp that lets col run past the last column
ClampedUnchecked(v, limit) == v

\* clamped_row = row < height ? row : height - 1  (and the same for col)
Clamped(v, limit) == IF v < limit THEN v ELSE limit - 1

\* p = (clamped_row * width + clamped_col) * comp for pos = 0 .. bs*bs - 1
MCUPixels(x, y, bs, w, h, c) ==
    [n \in 1 .. bs * bs |->
        LET row == y + ((n - 1) \div bs)
            col == x + ((n - 1) % bs)
        IN  (Clamped(row, h) * w + Clamped(col, w)) * c]

ofsG(c) == IF c > 2 THEN 1 ELSE 0

ofsB(c) == IF c > 2 THEN 2 ELSE 0

(***************************************************************************)
(* Quantized coefficients.  DCT and quantization are float arithmetic on   *)
(* the samples; their result DU[0..63] (zigzag positions) is taken from    *)
(* this family: the blocks of image kind k follow one another in the       *)
(* template cycle below.  DC values stay in [-1024, 1016] and AC values in *)
(* [-1023, 1023], the ranges 8-bit samples give.                           *)
(***************************************************************************)
BlockOf(dc, ac) ==
    [p \in 0 .. 63 |->
        IF p = 0 THEN dc
        ELSE IF \E e \in ac : e[1] = p THEN (CHOOSE e \in ac : e[1] = p)[2] ELSE 0]

CoefTemplates ==
    << BlockOf(0, {}),
       BlockOf(1016, {}),
       BlockOf(-1024, {<< 1, 1023 >>, << 2, -1023 >>}),
       BlockOf(5, {<< 63, 1 >>}),
       BlockOf(-3, {<< 17, -2 >>, << 40, 255 >>}),
       BlockOf(1016, {<< 1, 1023 >>, << 2, 1023 >>, << 3, 511 >>, << 5, 255 >>}) >>

CoefBlock(kind, n) == CoefTemplates[((kind + (n * kind)) % Len(CoefTemplates)) + 1]

(***************************************************************************)
(* Bounds of the checked inputs                                            *)
(***************************************************************************)
MaxW == 17

MaxH == 9

\* qualities run from -QSlack to 100 + QSlack
QSlack == 2

\* image kinds 0 .. MaxKind select the coefficient blocks of a run
MaxKind == 5

VARIABLES
    \* ---- stbi_write_jpg_to_func --------------------------------------
    arg,        \* the call: [width, height, comp, dataNull, quality]
    env,        \* [kind: the image kind, cap: the room of the sink (-1: no limit)]
    pc,         \* "start" "tables" "header" "scan" "du" "fill" "eoi" "done" ("idle")
    result,     \* the return value, -1 until the call returns
    quality,    \* the local `quality`, overwritten by lines 194-197
    subsample,
    fdtbl_Y, fdtbl_UV,
    out,        \* every byte handed to func, in order
    sink,       \* [failed, at, late]
    bitBuf, bitCnt,
    DCY, DCU, DCV,
    mcuX, mcuY, \* x and y of the MCU loops
    unit,       \* the data unit of the MCU processDU is called for next (1-based)
    mcuP,       \* p of every (row, col) of the MCU, in pos order
    blockNo,    \* data units processed so far
    duTouch,    \* the samples the last processDU call touched
    \* ---- stbiw__jpg_buildHuffmanTable --------------------------------
    hTab,       \* which of HuffSpecs is being built (1..4)
    hpc,        \* "loop" | "built" ("idle")
    hs,         \* the loop state of the build
    \* ---- base64Encode / base64Decode --------------------------------
    b64pc,      \* "start" | "encoded" | "decoded" ("idle")
    b64data,    \* the bytes given to base64Encode
    b64text,    \* the string base64Encode returned, as character codes
    b64back,    \* the bytes base64Decode returned
    \* ---- ImageProcessor ---------------------------------------------
    targetWidth_, targetHeight_, quality_, isLowMemory_,
    nset,       \* setConfig calls made so far
    bitmap,     \* the bitmap handed to processAndEncode
    ppc,        \* where the processAndEncode call stands ("idle")
    info,       \* AndroidBitmapInfo: [width, height]
    targetW, targetH,
    rgbLen,     \* rgbData.size()
    peQuality,  \* the local `quality` of processAndEncode
    peResult,   \* what the call returned
    \* ---- stbiw__jpg_processDU, entropy coding of one block ----------
    bpc,        \* "start" | "coded" ("idle")
    bDU,        \* DU[0..63], the quantized block in zigzag order
    bDC,        \* the predictor DC handed to the call
    bClass,     \* "Y": YDC_HT / YAC_HT, "U": UDC_HT / UAC_HT
    bCodes,     \* the (code, length) pairs given to writeBits, in order
    bRet,       \* the return value
    \* ---- stbiw__jpg_writeBits, a sequence of calls ------------------
    wpc,        \* "writing" | "filled" ("idle")
    wBuf, wCnt, \* bitBuf and bitCnt
    wBytes,     \* every byte handed to stbiw__putc, in order
    wBits,      \* the bits of the codes written so far, first bit first
    nwrites     \* writeBits calls made before the fill

encVars == << arg, env, pc, result, quality, subsample, fdtbl_Y, fdtbl_UV, out, sink,
              bitBuf, bitCnt, DCY, DCU, DCV, mcuX, mcuY, unit, mcuP, blockNo, duTouch >>

huffVars == << hTab, hpc, hs >>

b64Vars == << b64pc, b64data, b64text, b64back >>

cfgVars == << targetWidth_, targetHeight_, quality_, isLowMemory_, nset, bitmap, ppc,
              info, targetW, targetH, rgbLen, peQuality, peResult >>

blkVars == << bpc, bDU, bDC, bClass, bCodes, bRet >>

bitVars == << wpc, wBuf, wCnt, wBytes, wBits, nwrites >>

vars == << encVars, huffVars, b64Vars, cfgVars, blkVars, bitVars >>

NoTouch == [arr |-> "none", off |-> 0, du_stride |-> 0,
            rows |-> {}, cols |-> {}, quant |-> {}, pairs |-> << >>, codes |-> << >>]

\* the state of the encoder's variables before anything is assigned
EncLocalsUnset ==
    /\ result = -1
    /\ quality = arg.quality
    /\ subsample = FALSE
    /\ fdtbl_Y = << >> /\ fdtbl_UV = << >>
    /\ out = << >>
    /\ sink = [failed |-> FALSE, at |-> -1, late |-> 0]
    /\ bitBuf = 0 /\ bitCnt = 0
    /\ DCY = 0 /\ DCU = 0 /\ DCV = 0
    /\ mcuX = 0 /\ mcuY = 0 /\ unit = 0
    /\ mcuP = << >>
    /\ blockNo = 0
    /\ duTouch = NoTouch

EncIdle ==
    /\ arg = [width |-> 0, height |-> 0, comp |-> 0, dataNull |-> TRUE, quality |-> 0]
    /\ env = [kind |-> 0, cap |-> -1]
    /\ pc = "idle"
    /\ EncLocalsUnset

HuffIdle == hTab = 1 /\ hpc = "idle" /\ hs = HuffStart(EmptyHT)

B64Idle == b64pc = "idle" /\ b64data = << >> /\ b64text = << >> /\ b64back = << >>

NoBitmap == [kind |-> "null", width |-> 0, height |-> 0]

NotReturned == [returned |-> FALSE, encoded |-> FALSE, width |-> 0, height |-> 0, quality |-> 0]

\* the locals of processAndEncode before anything is assigned
PeLocalsUnset ==
    /\ info = [width |-> 0, height |-> 0]
    /\ targetW = 0 /\ targetH = 0 /\ rgbLen = 0 /\ peQuality = 0
    /\ peResult = NotReturned

\* ImageProcessor::ImageProcessor()
Constructed ==
    /\ targetWidth_ = 360 /\ targetHeight_ = 640 /\ quality_ = 40
    /\ isLowMemory_ = FALSE

BlkIdle ==
    /\ bpc = "idle" /\ bDU = << >> /\ bDC = 0 /\ bClass = "Y" /\ bCodes = << >> /\ bRet = 0

BitIdle ==
    /\ wpc = "idle" /\ wBuf = 0 /\ wCnt = 0 /\ wBytes = << >> /\ wBits = << >>
    /\ nwrites = 0

CfgIdle == Constructed /\ nset = 0 /\ bitmap = NoBitmap /\ ppc = "idle" /\ PeLocalsUnset

(***************************************************************************)
(* Spec: one call of stbi_write_jpg_to_func                                *)
(***************************************************************************)
Call(w, h, c, n, q) ==
    [width |-> w, height |-> h, comp |-> c, dataNull |-> n, quality |-> q]

\* every size and channel count, in both subsampling modes
GeometryRuns ==
    { << Call(w, h, c, FALSE, q), [kind |-> 1, cap |-> -1] >> :
        w \in -1 .. MaxW, h \in -1 .. MaxH, c \in 0 .. 5, q \in {75, 95} }

\* every quality on small images of every kind
QualityRuns ==
    { << Call(w, 1, 3, FALSE, q), [kind |-> k, cap |-> -1] >> :
        w \in {1, 9}, q \in (0 - QSlack) .. (100 + QSlack), k \in 0 .. MaxKind }

\* sinks that run out of room in the header, in the scan, at the end marker
SinkRuns ==
    { << Call(1, 1, 3, FALSE, q), [kind |-> k, cap |-> cp] >> :
        q \in {75, 95}, k \in {1, 5},
        cp \in {0, 25, HeaderLen - 1, HeaderLen, HeaderLen + 2, HeaderLen + 40} }

NullRuns == { << Call(1, 1, 3, TRUE, 75), [kind |-> 0, cap |-> -1] >> }

EncInit ==
    /\ \E run \in GeometryRuns \cup QualityRuns \cup SinkRuns \cup NullRuns :
           arg = run[1] /\ env = run[2]
    /\ pc = "start"
    /\ EncLocalsUnset

Init == EncInit /\ HuffIdle /\ B64Idle /\ CfgIdle /\ BlkIdle /\ BitIdle

\* hand bytes to func in calls ending at `ends`: out grows by the bytes, the
\* sink takes them or fails
Deliver(bytes, ends) ==
    /\ out' = out \o bytes
    /\ sink' = SinkAfter(sink, Len(out), env.cap, ends)

\* if (!data || !width || !height || comp > 4 || comp < 1) return 0;
Validate ==
    /\ pc = "start"
    /\ IF arg.dataNull \/ arg.width = 0 \/ arg.height = 0 \/ arg.comp > 4 \/ arg.comp < 1
       THEN result' = 0 /\ pc' = "done"
       ELSE result' = result /\ pc' = "tables"
    /\ UNCHANGED << arg, env, quality, subsample, fdtbl_Y, fdtbl_UV, out, sink, bitBuf,
                    bitCnt, DCY, DCU, DCV, mcuX, mcuY, unit, mcuP, blockNo, duTouch >>
    /\ UNCHANGED << huffVars, b64Vars, cfgVars, blkVars, bitVars >>

\* lines 194-213: the quality scale, the subsampling mode, the reciprocal tables
\* (the four Huffman tables are YDC_HT, YAC_HT, UDC_HT, UAC_HT, the same every call)
BuildTables ==
    /\ pc = "tables"
    /\ quality' = ScaledQuality(arg.quality)
    /\ subsample' = SubsampleOf(arg.quality)
    /\ fdtbl_Y' = BuildFdtbl(YQT, quality')
    /\ fdtbl_UV' = BuildFdtbl(UVQT, quality')
    /\ pc' = "header"
    /\ UNCHANGED << arg, env, result, out, sink, bitBuf, bitCnt, DCY, DCU, DCV,
                    mcuX, mcuY, unit, mcuP, blockNo, duTouch >>
    /\ UNCHANGED << huffVars, b64Vars, cfgVars, blkVars, bitVars >>

\* lines 215-246: the header calls, then the scan's locals
WriteHeader ==
    /\ pc = "header"
    /\ Deliver(Flatten(HeaderCalls(arg.height, arg.width, subsample)), HeaderEnds)
    /\ DCY' = 0 /\ DCU' = 0 /\ DCV' = 0
    /\ bitBuf' = 0 /\ bitCnt' = 0
    /\ mcuX' = 0 /\ mcuY' = 0
    /\ pc' = "scan"
    /\ UNCHANGED << arg, env, result, quality, subsample, fdtbl_Y, fdtbl_UV,
                    unit, mcuP, blockNo, duTouch >>
    /\ UNCHANGED << huffVars, b64Vars, cfgVars, blkVars, bitVars >>

\* the MCU is 16x16 pixels when subsampling and 8x8 otherwise
MCUSize == IF subsample THEN 16 ELSE 8

\* an MCU whose Cr unit is handed the Cb predictor and assigned to it
UnitsChromaShared ==
    IF subsample
    THEN << [arr |-> "Y", off |-> 0, du_stride |-> 16, class |-> "Y"],
            [arr |-> "Y", off |-> 8, du_stride |-> 16, class |-> "Y"],
            [arr |-> "Y", off |-> 128, du_stride |-> 16, class |-> "Y"],
            [arr |-> "Y", off |-> 136, du_stride |-> 16, class |-> "Y"],
            [arr |-> "subU", off |-> 0, du_stride |-> 8, class |-> "U"],
            [arr |-> "subV", off |-> 0, du_stride |-> 8, class |-> "U"] >>
    ELSE << [arr |-> "Y", off |-> 0, du_stride |-> 8, class |-> "Y"],
            [arr |-> "U", off |-> 0, du_stride |-> 8, class |-> "U"],
            [arr |-> "V", off |-> 0, du_stride |-> 8, class |-> "U"] >>

\* the processDU calls of one MCU, in order (lines 262-265, 276-277, 296-298)
Units ==
    IF subsample
    THEN << [arr |-> "Y", off |-> 0, du_stride |-> 16, class |-> "Y"],
            [arr |-> "Y", off |-> 8, du_stride |-> 16, class |-> "Y"],
            [arr |-> "Y", off |-> 128, du_stride |-> 16, class |-> "Y"],
            [arr |-> "Y", off |-> 136, du_stride |-> 16, class |-> "Y"],
            [arr |-> "subU", off |-> 0, du_stride |-> 8, class |-> "U"],
            [arr |-> "subV", off |-> 0, du_stride |-> 8, class |-> "V"] >>
    ELSE << [arr |-> "Y", off |-> 0, du_stride |-> 8, class |-> "Y"],
            [arr |-> "U", off |-> 0, du_stride |-> 8, class |-> "U"],
            [arr |-> "V", off |-> 0, du_stride |-> 8, class |-> "V"] >>

\* the inner x loop is over (or never ran): y += MCU size, x = 0
NextRow ==
    /\ pc = "scan"
    /\ mcuY < arg.height /\ mcuX >= arg.width
    /\ mcuX' = 0 /\ mcuY' = mcuY + MCUSize
    /\ UNCHANGED << arg, env, pc, result, quality, subsample, fdtbl_Y, fdtbl_UV, out,
                    sink, bitBuf, bitCnt, DCY, DCU, DCV, unit, mcuP, blockNo, duTouch >>
    /\ UNCHANGED << huffVars, b64Vars, cfgVars, blkVars, bitVars >>

\* the row/col loops that fill Y, U and V of the MCU at (x, y)
LoadMCU ==
    /\ pc = "scan"
    /\ mcuY < arg.height /\ mcuX < arg.width
    /\ mcuP' = MCUPixels(mcuX, mcuY, MCUSize, arg.width, arg.height, arg.comp)
    /\ unit' = 1
    /\ pc' = "du"
    /\ UNCHANGED << arg, env, result, quality, subsample, fdtbl_Y, fdtbl_UV, out, sink,
                    bitBuf, bitCnt, DCY, DCU, DCV, mcuX, mcuY, blockNo, duTouch >>
    /\ UNCHANGED << huffVars, b64Vars, cfgVars, blkVars, bitVars >>

\* one stbiw__jpg_processDU call and the assignment of its return value
ProcessDU ==
    /\ pc = "du"
    /\ LET u     == Units[unit]
           DU    == CoefBlock(env.kind, blockNo)
           DC    == IF u.class = "Y" THEN DCY ELSE IF u.class = "U" THEN DCU ELSE DCV
           HTDC  == IF u.class = "Y" THEN YDC_HT ELSE UDC_HT
           HTAC  == IF u.class = "Y" THEN YAC_HT ELSE UAC_HT
           w     == WriteAll([bitBuf |-> bitBuf, bitCnt |-> bitCnt, bytes |-> << >>],
                             DUCodes(DU, DC, HTDC, HTAC))
       IN  /\ Deliver(w.bytes, PutcEnds(w.bytes))
           /\ bitBuf' = w.bitBuf /\ bitCnt' = w.bitCnt
           /\ DCY' = IF u.class = "Y" THEN DU[0] ELSE DCY
           /\ DCU' = IF u.class = "U" THEN DU[0] ELSE DCU
           /\ DCV' = IF u.class = "V" THEN DU[0] ELSE DCV
           /\ duTouch' = [arr |-> u.arr, off |-> u.off, du_stride |-> u.du_stride,
                          rows  |-> RowPassIdx(u.off, u.du_stride),
                          cols  |-> ColPassIdx(u.off, u.du_stride),
                          quant |-> QuantIdx(u.off, u.du_stride),
                          pairs |-> QuantPairs(u.off, IF u.class = "Y" THEN fdtbl_Y
                                                                       ELSE fdtbl_UV),
                          codes |-> DUCodes(DU, DC, HTDC, HTAC)]
    /\ blockNo' = blockNo + 1
    /\ IF unit = Len(Units)
       THEN unit' = 0 /\ mcuX' = mcuX + MCUSize /\ pc' = "scan"
       ELSE unit' = unit + 1 /\ mcuX' = mcuX /\ pc' = "du"
    /\ UNCHANGED << arg, env, result, quality, subsample, fdtbl_Y, fdtbl_UV, mcuY, mcuP >>
    /\ UNCHANGED << huffVars, b64Vars, cfgVars, blkVars, bitVars >>

\* the y loop is over
ScanDone ==
    /\ pc = "scan"
    /\ mcuY >= arg.height
    /\ pc' = "fill"
    /\ UNCHANGED << arg, env, result, quality, subsample, fdtbl_Y, fdtbl_UV, out, sink,
                    bitBuf, bitCnt, DCY, DCU, DCV, mcuX, mcuY, unit, mcuP, blockNo,
                    duTouch >>
    /\ UNCHANGED << huffVars, b64Vars, cfgVars, blkVars, bitVars >>

\* stbiw__jpg_writeBits(func, context, &bitBuf, &bitCnt, fillBits);
FillBits ==
    /\ pc = "fill"
    /\ LET w == stbiw__jpg_writeBits(
                    [bitBuf |-> bitBuf, bitCnt |-> bitCnt, bytes |-> << >>], fillBits)
       IN  /\ Deliver(w.bytes, PutcEnds(w.bytes))
           /\ bitBuf' = w.bitBuf /\ bitCnt' = w.bitCnt
    /\ pc' = "eoi"
    /\ UNCHANGED << arg, env, result, quality, subsample, fdtbl_Y, fdtbl_UV, DCY, DCU,
                    DCV, mcuX, mcuY, unit, mcuP, blockNo, duTouch >>
    /\ UNCHANGED << huffVars, b64Vars, cfgVars, blkVars, bitVars >>

\* func(context, "\xFF\xD9", 2); return 1;
WriteEOI ==
    /\ pc = "eoi"
    /\ Deliver(Flatten(EOICalls), EOIEnds)
    /\ result' = 1
    /\ pc' = "done"
    /\ UNCHANGED << arg, env, quality, subsample, fdtbl_Y, fdtbl_UV, bitBuf, bitCnt,
                    DCY, DCU, DCV, mcuX, mcuY, unit, mcuP, blockNo, duTouch >>
    /\ UNCHANGED << huffVars, b64Vars, cfgVars, blkVars, bitVars >>

Next ==
    \/ Validate \/ BuildTables \/ WriteHeader
    \/ NextRow \/ LoadMCU \/ ProcessDU \/ ScanDone
    \/ FillBits \/ WriteEOI

Spec == Init /\ [][Next]_vars

(***************************************************************************)
(* Properties of the encoder call                                          *)
(***************************************************************************)
Returned(r) == pc = "done" /\ result = r

HeaderWritten == pc \in {"scan", "du", "fill", "eoi", "done"} /\ Len(out) >= HeaderLen

\* the entropy-coded segment lies after the SOS header and, once the call has
\* returned, before the two bytes of EOI
EntropyFirst == HeaderLen + 1

EntropyLast == IF pc = "done" THEN Len(out) - 2 ELSE Len(out)

\* C1: a call that returns 1 has delivered a stream that starts with FF D8 and
\* ends with FF D9; out holds every byte delivered, so nothing follows the EOI.
C1_Markers ==
    Returned(1) =>
        /\ Len(out) >= 4
        /\ out[1] = 255 /\ out[2] = 216
        /\ out[Len(out) - 1] = 255 /\ out[Len(out)] = 217

C1_Witness ==
    /\ Returned(1) /\ arg.width = MaxW /\ arg.height = MaxH /\ arg.comp = 4
    /\ ~subsample /\ blockNo > 3

\* C2: after every writeBits call, the fill write included, each 0xFF of the
\* entropy-coded segment is directly followed by 0x00.
C2_Stuffing ==
    HeaderWritten =>
        \A n \in EntropyFirst .. EntropyLast :
            out[n] = 255 => (n + 1 <= EntropyLast /\ out[n + 1] = 0)

\* the fill write itself emitted 0xFF and its stuffed zero, after a scan that
\* had emitted another 0xFF
C2_Witness ==
    /\ pc = "eoi" /\ bitCnt < 7
    /\ Len(out) > HeaderLen + 4
    /\ out[Len(out) - 1] = 255 /\ out[Len(out)] = 0
    /\ \E n \in EntropyFirst .. Len(out) - 2 : out[n] = 255

\* C3: the 64 bytes of each DQT segment are the quality-scaled divisors the
\* reciprocal tables are built from, the byte at zigzag position z being the
\* divisor of fdtbl[z].
C3_DQTIsScaled ==
    HeaderWritten =>
        \A z \in 0 .. 63 :
            /\ out[YDQTPos + z] = fdtbl_Y[z].div
            /\ out[UVDQTPos + z] = fdtbl_UV[z].div

\* C5: a call during which the sink failed returns 0 and makes no further call
\* of the sink after the one that failed.
C5_SinkFailureFatal ==
    (pc = "done" /\ sink.failed) => (result = 0 /\ sink.late = 0)

Max(a, b) == IF a < b THEN b ELSE a

\* C7 (as stated): every quality q is encoded with the scale and the divisors of
\* quality clamp(q, 1, 100), q = 0 included.
C7_AsStated ==
    HeaderWritten =>
        LET s == ScaledQuality(Max(1, Min(100, arg.quality)))
        IN  /\ quality = s
            /\ fdtbl_Y = BuildFdtbl(YQT, s)
            /\ fdtbl_UV = BuildFdtbl(UVQT, s)

\* C7 (amended): every quality q other than 0 is encoded with the scale and the
\* divisors of quality clamp(q, 1, 100); q = 0 is encoded as quality 90.
C7_ClampedOrDefault ==
    HeaderWritten =>
        LET c == IF arg.quality = 0 THEN 90 ELSE Max(1, Min(100, arg.quality))
            s == ScaledQuality(c)
        IN  /\ quality = s
            /\ fdtbl_Y = BuildFdtbl(YQT, s)
            /\ fdtbl_UV = BuildFdtbl(UVQT, s)

C7_Witness ==
    /\ Returned(1) /\ arg.quality > 100
    /\ quality = 0 /\ \A z \in 0 .. 63 : fdtbl_Y[z].div = 1

\* C9: every R, G and B index read for the MCU lies inside the pixel buffer, and
\* a position past the right or bottom edge reads the last column or row.
C9_InBounds ==
    pc = "du" =>
        \A n \in 1 .. Len(mcuP) :
            LET row == mcuY + ((n - 1) \div MCUSize)
                col == mcuX + ((n - 1) % MCUSize)
                p   == mcuP[n]
                lim == arg.width * arg.height * arg.comp
            IN  /\ \A q \in {p, p + ofsG(arg.comp), p + ofsB(arg.comp)} :
                       0 <= q /\ q < lim
                /\ p = ((Min(row, arg.height - 1) * arg.width)
                        + Min(col, arg.width - 1)) * arg.comp

\* the second MCU of a 17-wide, 9-high image: positions past both edges
C9_Witness ==
    /\ pc = "du" /\ arg.width = 17 /\ arg.height = 9 /\ arg.comp = 3
    /\ mcuX = 16 /\ subsample
    /\ mcuP[Len(mcuP)] = ((8 * 17) + 16) * 3

\* the 8x8 quadrant of the 16-wide sample array that starts at off
Quadrant(off) == {off + (16 * r) + c : r \in 0 .. 7, c \in 0 .. 7}

\* C10: under 4:2:0 the row pass, the column pass and the quantization of a
\* luma unit at offset off touch exactly the 64 samples off + 16*r + c.
C10_OwnQuadrant ==
    (duTouch.arr = "Y" /\ duTouch.du_stride = 16) =>
        /\ duTouch.rows = Quadrant(duTouch.off)
        /\ duTouch.cols = Quadrant(duTouch.off)
        /\ duTouch.quant = Quadrant(duTouch.off)

\* C11: the coefficient at natural position i = 8*r + c is multiplied by the
\* reciprocal built from the scaled divisor of base entry i and the constants
\* of column c and row r, and its rounded value goes to position ZigZag[i].
C11_OwnDivisor ==
    duTouch.arr # "none" =>
        \A i \in 0 .. 63 :
            /\ duTouch.pairs[i].recip =
                   [div |-> Divisor(IF duTouch.arr = "Y" THEN YQT ELSE UVQT, i, quality),
                    a |-> i % 8, b |-> i \div 8]
            /\ duTouch.pairs[i].to = At(stbiw__jpg_ZigZag, i)

\* the channel class of the n-th block of the encode (n = 0, 1, ...): four Y,
\* one Cb, one Cr per MCU when subsampling, one of each otherwise
ClassOfBlock(n) ==
    IF subsample
    THEN (IF n % 6 < 4 THEN "Y" ELSE IF n % 6 = 4 THEN "U" ELSE "V")
    ELSE (IF n % 3 = 0 THEN "Y" ELSE IF n % 3 = 1 THEN "U" ELSE "V")

\* the quantized DC of the n-th block
QuantDC(n) == CoefBlock(env.kind, n)[0]

\* the quantized DC of the last block of class cl among the blocks before n
LastDC(cl, n) ==
    LET same == {m \in 0 .. n - 1 : ClassOfBlock(m) = cl}
    IN  IF same = {} THEN 0
        ELSE QuantDC(CHOOSE m \in same : \A r \in same : r <= m)

\* the codes of a DC difference: the code of category 0 for no difference,
\* else the code of the category n with 2^(n-1) <= |diff| < 2^n and the n
\* magnitude bits (diff, or diff - 1 in n bits when diff is negative)
DCCodesOf(diff, HTDC) ==
    IF diff = 0 THEN << HTDC[0] >>
    ELSE LET n == CHOOSE n \in 1 .. 12 : Pow2(n - 1) <= Abs(diff) /\ Abs(diff) < Pow2(n)
         IN  << HTDC[n], << IF diff > 0 THEN diff ELSE (Pow2(n) - 1) + diff, n >> >>

\* C12: each predictor holds the quantized DC of the latest block of its class
\* (0 before the first), whatever blocks of the other classes came between, and
\* the DC code of a block is that of its quantized DC minus the quantized DC of
\* the latest earlier block of its class.
C12_DCPrediction ==
    /\ DCY = LastDC("Y", blockNo)
    /\ DCU = LastDC("U", blockNo)
    /\ DCV = LastDC("V", blockNo)
    /\ blockNo > 0 =>
           LET n    == blockNo - 1
               cl   == ClassOfBlock(n)
               exp  == DCCodesOf(QuantDC(n) - LastDC(cl, n),
                                 IF cl = "Y" THEN YDC_HT ELSE UDC_HT)
           IN  /\ Len(duTouch.codes) >= Len(exp)
               /\ SubSeq(duTouch.codes, 1, Len(exp)) = exp

\* two subsampled MCUs encoded: the three predictors differ, blocks left
\* processDU through the early return (no AC) and through the last one
C12_Witness ==
    /\ Returned(1) /\ subsample /\ env.kind = 1 /\ blockNo = 12
    /\ DCY = -3 /\ DCU = 1016 /\ DCV = 0

(***************************************************************************)
(* SpecHuffman: one build of each standard table, a loop turn per step     *)
(***************************************************************************)
HuffInit ==
    /\ EncIdle /\ B64Idle /\ CfgIdle /\ BlkIdle /\ BitIdle
    /\ hTab \in 1 .. Len(HuffSpecs)
    /\ hpc = "loop"
    /\ hs = HuffStart(EmptyHT)

\* one turn of the inner loop: htable[std_table[k]] = (code++, j); k++
HuffAssign ==
    /\ hpc = "loop" /\ ~HuffDone(hs)
    /\ hs.i <= At(HuffSpecs[hTab].nrcodes, hs.j)
    /\ hs' = HuffStep(hs, HuffSpecs[hTab].nrcodes, HuffSpecs[hTab].values)
    /\ UNCHANGED << hTab, hpc >>
    /\ UNCHANGED << encVars, b64Vars, cfgVars, blkVars, bitVars >>

\* the inner loop is over for length j: code *= 2; j++
HuffNextLength ==
    /\ hpc = "loop" /\ ~HuffDone(hs)
    /\ hs.i > At(HuffSpecs[hTab].nrcodes, hs.j)
    /\ hs' = HuffStep(hs, HuffSpecs[hTab].nrcodes, HuffSpecs[hTab].values)
    /\ UNCHANGED << hTab, hpc >>
    /\ UNCHANGED << encVars, b64Vars, cfgVars, blkVars, bitVars >>

HuffReturn ==
    /\ hpc = "loop" /\ HuffDone(hs)
    /\ hpc' = "built"
    /\ UNCHANGED << hTab, hs >>
    /\ UNCHANGED << encVars, b64Vars, cfgVars, blkVars, bitVars >>

HuffNext == HuffAssign \/ HuffNextLength \/ HuffReturn

SpecHuffman == HuffInit /\ [][HuffNext]_vars

\* the symbols written so far, in value order, with their code and length
HuffWritten(n) == hs.htable[At(HuffSpecs[hTab].values, n)]

HuffCode(n) == HuffWritten(n)[1]

HuffLen(n) == HuffWritten(n)[2]

\* C8 (as stated): in value order the code lengths never decrease, codes of
\* one length are consecutive, and the first code of a length is twice the
\* successor of the last code of the length before it.
C8_AsStated ==
    \A n \in 0 .. hs.k - 2 :
        /\ HuffLen(n) <= HuffLen(n + 1)
        /\ HuffLen(n) = HuffLen(n + 1) => HuffCode(n + 1) = HuffCode(n) + 1
        /\ HuffLen(n) < HuffLen(n + 1) => HuffCode(n + 1) = 2 * (HuffCode(n) + 1)

\* C8 (amended): in value order the code lengths never decrease, codes of one
\* length are consecutive, and the first code of a length is the successor of
\* the last code of the previous used length, doubled once per bit of length
\* gained (twice the successor only when the two lengths are adjacent).
C8_Canonical ==
    \A n \in 0 .. hs.k - 2 :
        /\ HuffLen(n) <= HuffLen(n + 1)
        /\ HuffLen(n) = HuffLen(n + 1) => HuffCode(n + 1) = HuffCode(n) + 1
        /\ HuffLen(n) < HuffLen(n + 1) =>
               HuffCode(n + 1) = (HuffCode(n) + 1) * Pow2(HuffLen(n + 1) - HuffLen(n))

\* a finished AC luminance table: 162 symbols, lengths 12 and 15 adjacent in use
C8_Witness ==
    /\ hpc = "built" /\ hTab = 2 /\ hs.k = 162
    /\ \E n \in 0 .. hs.k - 2 : HuffLen(n) = 12 /\ HuffLen(n + 1) = 15

(***************************************************************************)
(* SpecBase64: base64Encode of a byte vector, then base64Decode of the     *)
(* string it returned.  Characters are their ASCII codes.                  *)
(***************************************************************************)
MaxB64Len == 4

\* "ABC...XYZabc...xyz0123456789+/"
base64_chars ==
    << 65, 66, 67, 68, 69, 70, 71, 72, 73, 74, 75, 76, 77, 78, 79, 80, 81, 82, 83, 84,
       85, 86, 87, 88, 89, 90, 97, 98, 99, 100, 101, 102, 103, 104, 105, 106, 107, 108,
       109, 110, 111, 112, 113, 114, 115, 116, 117, 118, 119, 120, 121, 122, 48, 49, 50,
       51, 52, 53, 54, 55, 56, 57, 43, 47 >>

\* '='
PadChar == 61

\* one turn of the while loop of base64Encode, from index i
RECURSIVE B64EncodeFrom(_, _, _)
B64EncodeFrom(data, i, res) ==
    LET len     == Len(data)
        octet_a == IF i < len THEN At(data, i) ELSE 0
        ia      == IF i < len THEN i + 1 ELSE i
        octet_b == IF ia < len THEN At(data, ia) ELSE 0
        ib      == IF ia < len THEN ia + 1 ELSE ia
        octet_c == IF ib < len THEN At(data, ib) ELSE 0
        ic      == IF ib < len THEN ib + 1 ELSE ib
        triple  == (octet_a * Pow2(16)) + (octet_b * Pow2(8)) + octet_c
        c1      == At(base64_chars, Shr(triple, 18) % 64)
        c2      == At(base64_chars, Shr(triple, 12) % 64)
        c3      == IF ic > len + 1 THEN PadChar ELSE At(base64_chars, Shr(triple, 6) % 64)
        c4      == IF ic > len THEN PadChar ELSE At(base64_chars, triple % 64)
    IN  IF i < len
        THEN B64EncodeFrom(data, ic, res \o << c1, c2, c3, c4 >>)
        ELSE res

base64Encode(data) == B64EncodeFrom(data, 0, << >>)

\* decodeTable[c]: the index of c in base64_chars, -1 for every other character
decodeTable ==
    [c \in 0 .. 255 |->
        IF \E n \in 0 .. 63 : At(base64_chars, n) = c
        THEN CHOOSE n \in 0 .. 63 : At(base64_chars, n) = c
        ELSE -1]

\* the for loop of base64Decode from character n (1-based).  The loop reads
\* bits valb .. valb + 7 of val with valb <= 4, so val is kept to its low 12
\* bits; they do not depend on the bits shifted out above them.
RECURSIVE B64DecodeFrom(_, _, _, _, _)
B64DecodeFrom(encoded, n, val, valb, res) ==
    IF n > Len(encoded) \/ decodeTable[encoded[n]] = -1
    THEN res
    ELSE LET val1  == ((val * 64) + decodeTable[encoded[n]]) % Pow2(12)
             valb1 == valb + 6
         IN  IF valb1 >= 0
             THEN B64DecodeFrom(encoded, n + 1, val1, valb1 - 8,
                                Append(res, Shr(val1, valb1) % 256))
             ELSE B64DecodeFrom(encoded, n + 1, val1, valb1, res)

base64Decode(encoded) ==
    IF encoded = << >> THEN << >> ELSE B64DecodeFrom(encoded, 1, 0, -8, << >>)

\* bytes whose sextets reach both ends of the alphabet and the '+' and '/'
B64Bytes == {0, 77, 251, 255}

RECURSIVE SeqsUpTo(_, _)
SeqsUpTo(S, n) ==
    IF n = 0 THEN {<< >>}
    ELSE LET shorter == SeqsUpTo(S, n - 1)
         IN  shorter \cup {Append(q, x) : q \in {r \in shorter : Len(r) = n - 1}, x \in S}

B64Init ==
    /\ EncIdle /\ HuffIdle /\ CfgIdle /\ BlkIdle /\ BitIdle
    /\ b64pc = "start"
    /\ b64data \in SeqsUpTo(B64Bytes, MaxB64Len)
    /\ b64text = << >> /\ b64back = << >>

B64Encode ==
    /\ b64pc = "start"
    /\ b64text' = base64Encode(b64data)
    /\ b64pc' = "encoded"
    /\ UNCHANGED << b64data, b64back >>
    /\ UNCHANGED << encVars, huffVars, cfgVars, blkVars, bitVars >>

B64Decode ==
    /\ b64pc = "encoded"
    /\ b64back' = base64Decode(b64text)
    /\ b64pc' = "decoded"
    /\ UNCHANGED << b64data, b64text >>
    /\ UNCHANGED << encVars, huffVars, cfgVars, blkVars, bitVars >>

B64Next == B64Encode \/ B64Decode

SpecBase64 == B64Init /\ [][B64Next]_vars

\* C4: decoding the encoding of d gives d back, for every length of d.
C4_RoundTrip == b64pc = "decoded" => b64back = b64data

\* what the round trip does give: d followed by a zero byte for each byte
\* missing from its last group of three
RoundTripZeroPadded ==
    b64pc = "decoded" =>
        /\ Len(b64back) = 3 * ((Len(b64data) + 2) \div 3)
        /\ \A n \in 1 .. Len(b64back) :
               b64back[n] = IF n <= Len(b64data) THEN b64data[n] ELSE 0

(***************************************************************************)
(* SpecConfig: one processAndEncode call against setConfig and             *)
(* setLowMemory calls of other threads.  Every lock_guard scope is one     *)
(* step; what the call does between two scopes is a step of its own.       *)
(***************************************************************************)
MaxSets == 2

Config(w, h, q) == [targetWidth |-> w, targetHeight |-> h, quality |-> q]

\* what the constructor installs
InitialConfig == Config(360, 640, 40)

\* what the other threads install
Configs == {Config(180, 320, 60), Config(720, 1280, 80), Config(1, 1, 10)}

\* bitmaps whose width / height is a float without rounding (9/16, 1, 2, 1/4),
\* so that the float products and quotients below are the integer ones
Bitmap(k, w, h) == [kind |-> k, width |-> w, height |-> h]

Bitmaps ==
    { Bitmap("ok", 720, 1280), Bitmap("ok", 512, 512), Bitmap("ok", 1024, 512),
      Bitmap("ok", 256, 1024),
      NoBitmap, Bitmap("noinfo", 720, 1280), Bitmap("nolock", 720, 1280) }

\* targetW and targetH of lines 155-163 for the members tw, th and the bitmap
TargetDims(tw, th, inf) ==
    LET h1 == (tw * inf.height) \div inf.width
    IN  IF h1 > th
        THEN << (th * inf.width) \div inf.height, th >>
        ELSE << tw, h1 >>

Returns(enc, w, h, q) ==
    [returned |-> TRUE, encoded |-> enc, width |-> w, height |-> h, quality |-> q]

CfgInit ==
    /\ EncIdle /\ HuffIdle /\ B64Idle /\ BlkIdle /\ BitIdle
    /\ Constructed /\ nset = 0
    /\ bitmap \in Bitmaps
    /\ ppc = "start"
    /\ PeLocalsUnset

peLocals == << bitmap, ppc, info, targetW, targetH, rgbLen, peQuality, peResult >>

\* setConfig on another thread: the three members under one lock
setConfig(w, h, q) ==
    /\ nset < MaxSets
    /\ targetWidth_' = w /\ targetHeight_' = h /\ quality_' = q
    /\ nset' = nset + 1
    /\ UNCHANGED isLowMemory_
    /\ UNCHANGED peLocals
    /\ UNCHANGED << encVars, huffVars, b64Vars, blkVars, bitVars >>

SetConfig == \E c \in Configs : setConfig(c.targetWidth, c.targetHeight, c.quality)

SetLowMemory ==
    /\ \E b \in BOOLEAN : isLowMemory_' = b
    /\ UNCHANGED << targetWidth_, targetHeight_, quality_, nset >>
    /\ UNCHANGED peLocals
    /\ UNCHANGED << encVars, huffVars, b64Vars, blkVars, bitVars >>

members == << targetWidth_, targetHeight_, quality_, isLowMemory_, nset >>

\* if (isLowMemory()) return "";
PeLowMemory ==
    /\ ppc = "start"
    /\ IF isLowMemory_
       THEN ppc' = "done" /\ peResult' = Returns(FALSE, 0, 0, 0)
       ELSE ppc' = "bitmap" /\ UNCHANGED peResult
    /\ UNCHANGED << bitmap, info, targetW, targetH, rgbLen, peQuality >>
    /\ UNCHANGED members
    /\ UNCHANGED << encVars, huffVars, b64Vars, blkVars, bitVars >>

\* the null check, AndroidBitmap_getInfo and AndroidBitmap_lockPixels
PeBitmap ==
    /\ ppc = "bitmap"
    /\ IF bitmap.kind = "ok"
       THEN /\ info' = [width |-> bitmap.width, height |-> bitmap.height]
            /\ ppc' = "dims"
            /\ UNCHANGED peResult
       ELSE /\ ppc' = "done" /\ peResult' = Returns(FALSE, 0, 0, 0)
            /\ UNCHANGED info
    /\ UNCHANGED << bitmap, targetW, targetH, rgbLen, peQuality >>
    /\ UNCHANGED members
    /\ UNCHANGED << encVars, huffVars, b64Vars, blkVars, bitVars >>

\* the first lock scope: targetW and targetH from targetWidth_, targetHeight_
PeTargetDims ==
    /\ ppc = "dims"
    /\ targetW' = TargetDims(targetWidth_, targetHeight_, info)[1]
    /\ targetH' = TargetDims(targetWidth_, targetHeight_, info)[2]
    /\ ppc' = "downscale"
    /\ UNCHANGED << bitmap, info, rgbLen, peQuality, peResult >>
    /\ UNCHANGED members
    /\ UNCHANGED << encVars, huffVars, b64Vars, blkVars, bitVars >>

\* downscaleRGBA and AndroidBitmap_unlockPixels, outside any lock
PeDownscale ==
    /\ ppc = "downscale"
    /\ rgbLen' = targetW * targetH * 3
    /\ ppc' = "quality"
    /\ UNCHANGED << bitmap, info, targetW, targetH, peQuality, peResult >>
    /\ UNCHANGED members
    /\ UNCHANGED << encVars, huffVars, b64Vars, blkVars, bitVars >>

\* the second lock scope: quality = quality_
PeQuality ==
    /\ ppc = "quality"
    /\ peQuality' = quality_
    /\ ppc' = "encode"
    /\ UNCHANGED << bitmap, info, targetW, targetH, rgbLen, peResult >>
    /\ UNCHANGED members
    /\ UNCHANGED << encVars, huffVars, b64Vars, blkVars, bitVars >>

\* stbi_write_jpg_to_func(.., targetW, targetH, 3, rgbData.data(), quality): it
\* returns 0 for a zero width or height; "" then, the base64 text otherwise
PeEncode ==
    /\ ppc = "encode"
    /\ peResult' = Returns(targetW /= 0 /\ targetH /= 0, targetW, targetH, peQuality)
    /\ ppc' = "done"
    /\ UNCHANGED << bitmap, info, targetW, targetH, rgbLen, peQuality >>
    /\ UNCHANGED members
    /\ UNCHANGED << encVars, huffVars, b64Vars, blkVars, bitVars >>

CfgNext ==
    \/ SetConfig \/ SetLowMemory
    \/ PeLowMemory \/ PeBitmap \/ PeTargetDims \/ PeDownscale \/ PeQuality \/ PeEncode

SpecConfig == CfgInit /\ [][CfgNext]_vars

\* the encoder was called for this image
EncoderCalled == ppc = "done" /\ peResult.returned /\ bitmap.kind = "ok" /\ info.width > 0

\* C6: the width, height and quality one processAndEncode call hands to the
\* encoder all come from one configuration: the initial one or the one of a
\* single setConfig call.
C6_OneConfig ==
    EncoderCalled =>
        \E c \in {InitialConfig} \cup Configs :
            /\ << peResult.width, peResult.height >>
                   = TargetDims(c.targetWidth, c.targetHeight, info)
            /\ peResult.quality = c.quality

(***************************************************************************)
(* SpecBlock: the entropy coding of stbiw__jpg_processDU on one quantized  *)
(* block, for every block of a bounded family.                             *)
(***************************************************************************)
MaxNonzero == 2

\* zigzag positions at the ends, around the runs of 16 and 32, and between
ACPositions == {1, 2, 16, 17, 18, 33, 49, 62, 63}

\* AC values of size 1, 2 and 10
ACValues == {1, -2, 1023}

\* the sets of at most n (position, value) pairs with distinct positions
RECURSIVE ACSets(_)
ACSets(n) ==
    IF n = 0 THEN {{}}
    ELSE LET fewer == ACSets(n - 1)
         IN  fewer \cup
             { ac \cup {<< p, v >>} :
                 ac \in {a \in fewer : Cardinality(a) = n - 1},
                 p \in ACPositions, v \in ACValues }

BlockFamily ==
    { BlockOf(dc, ac) :
        dc \in {0, -3},
        ac \in {a \in ACSets(MaxNonzero) :
                   \A e, f \in a : e[1] = f[1] => e = f} }

BlkInit ==
    /\ EncIdle /\ HuffIdle /\ B64Idle /\ CfgIdle /\ BitIdle
    /\ bpc = "start"
    /\ bDU \in BlockFamily
    /\ bDC \in {0, 5}
    /\ bClass \in {"Y", "U"}
    /\ bCodes = << >> /\ bRet = 0

\* lines 101-141 of stbiw__jpg_processDU on DU
EncodeDU ==
    /\ bpc = "start"
    /\ bCodes' = DUCodes(bDU, bDC,
                         IF bClass = "Y" THEN YDC_HT ELSE UDC_HT,
                         IF bClass = "Y" THEN YAC_HT ELSE UAC_HT)
    /\ bRet' = bDU[0]
    /\ bpc' = "coded"
    /\ UNCHANGED << bDU, bDC, bClass >>
    /\ UNCHANGED << encVars, huffVars, b64Vars, cfgVars, bitVars >>

BlkNext == EncodeDU

SpecBlock == BlkInit /\ [][BlkNext]_vars

bHTAC == IF bClass = "Y" THEN YAC_HT ELSE UAC_HT

\* the size of a nonzero value: the n with 2^(n-1) <= |v| < 2^n
SizeOf(v) == CHOOSE n \in 1 .. 12 : Pow2(n - 1) <= Abs(v) /\ Abs(v) < Pow2(n)

\* its magnitude bits: v, or v - 1 in SizeOf(v) bits when v is negative
MagBits(v) == IF v > 0 THEN v ELSE (Pow2(SizeOf(v)) - 1) + v

\* the zeros before position p since the previous nonzero coefficient (or 1)
ZerosBefore(p) ==
    LET before == {r \in 1 .. p - 1 : bDU[r] # 0}
    IN  IF before = {} THEN p - 1
        ELSE (p - 1) - (CHOOSE m \in before : \A r \in before : r <= m)

\* what the claim prescribes for positions p .. 63: per nonzero coefficient the
\* ZRL codes, the run/size code and the magnitude bits; then EOB iff DU[63] = 0
RECURSIVE RunLengthFrom(_)
RunLengthFrom(p) ==
    IF p > 63 THEN (IF bDU[63] = 0 THEN << bHTAC[0] >> ELSE << >>)
    ELSE IF bDU[p] = 0 THEN RunLengthFrom(p + 1)
    ELSE [m \in 1 .. (ZerosBefore(p) \div 16) |-> bHTAC[240]]
         \o << bHTAC[((ZerosBefore(p) % 16) * 16) + SizeOf(bDU[p])],
               << MagBits(bDU[p]), SizeOf(bDU[p]) >> >>
         \o RunLengthFrom(p + 1)

\* the codes of the block after those of the DC difference
bACCodes ==
    LET dcLen == IF bDU[0] - bDC = 0 THEN 1 ELSE 2
    IN  SubSeq(bCodes, dcLen + 1, Len(bCodes))

\* C13: after the DC codes the block's codes are, for each nonzero coefficient
\* preceded by n zeros, floor(n/16) ZRL codes, the code of ((n mod 16) << 4) | size
\* and the size magnitude bits, followed by one EOB exactly when coefficient 63
\* is zero.
C13_RunLength == bpc = "coded" => bACCodes = RunLengthFrom(1)

\* a block with a run of exactly 16 zeros before position 17, a run of 45
\* before position 63 and no EOB
C13_Witness ==
    /\ bpc = "coded" /\ bClass = "Y"
    /\ bDU[17] = 1023 /\ bDU[63] = -2
    /\ bACCodes = << YAC_HT[240], YAC_HT[10], << 1023, 10 >>,
                     YAC_HT[240], YAC_HT[240], YAC_HT[(13 * 16) + 2], << 1, 2 >> >>

(***************************************************************************)
(* SpecBits: a sequence of stbiw__jpg_writeBits calls on one accumulator,  *)
(* ended by the fill write of stbi_write_jpg_to_func.                      *)
(***************************************************************************)
MaxWrites == 3

\* code lengths from 1 to 16, on and off the byte boundaries
WLengths == {1, 3, 8, 13, 16}

\* per length the codes 00..0, 11..1 and 0101..
WCodes ==
    UNION { { << v, n >> : v \in {0, Pow2(n) - 1, (Pow2(n) - 1) \div 3} } : n \in WLengths }

\* the bits of a code, first (most significant) bit first
BitsOfCode(bs) == [k \in 1 .. bs[2] |-> (bs[1] \div Pow2(bs[2] - k)) % 2]

BitInit ==
    /\ EncIdle /\ HuffIdle /\ B64Idle /\ CfgIdle /\ BlkIdle
    /\ wpc = "writing"
    /\ wBuf = 0 /\ wCnt = 0
    /\ wBytes = << >> /\ wBits = << >>
    /\ nwrites = 0

\* one stbiw__jpg_writeBits(func, context, &bitBuf, &bitCnt, bs)
WriteBits ==
    /\ wpc = "writing" /\ nwrites < MaxWrites
    /\ \E bs \in WCodes :
          LET w == stbiw__jpg_writeBits(
                       [bitBuf |-> wBuf, bitCnt |-> wCnt, bytes |-> << >>], bs)
          IN  /\ wBuf' = w.bitBuf /\ wCnt' = w.bitCnt
              /\ wBytes' = wBytes \o w.bytes
              /\ wBits' = wBits \o BitsOfCode(bs)
    /\ nwrites' = nwrites + 1
    /\ UNCHANGED wpc
    /\ UNCHANGED << encVars, huffVars, b64Vars, cfgVars, blkVars >>

\* stbiw__jpg_writeBits(func, context, &bitBuf, &bitCnt, fillBits)
WriteFill ==
    /\ wpc = "writing"
    /\ LET w == stbiw__jpg_writeBits(
                    [bitBuf |-> wBuf, bitCnt |-> wCnt, bytes |-> << >>], fillBits)
       IN  /\ wBuf' = w.bitBuf /\ wCnt' = w.bitCnt
           /\ wBytes' = wBytes \o w.bytes
    /\ wpc' = "filled"
    /\ UNCHANGED << wBits, nwrites >>
    /\ UNCHANGED << encVars, huffVars, b64Vars, cfgVars, blkVars >>

BitNext == WriteBits \/ WriteFill

SpecBits == BitInit /\ [][BitNext]_vars

\* the bytes written with the zero after every 0xFF taken out
RECURSIVE UnstuffFrom(_, _)
UnstuffFrom(bytes, n) ==
    IF n > Len(bytes) THEN << >>
    ELSE IF bytes[n] = 255 THEN << 255 >> \o UnstuffFrom(bytes, n + 2)
    ELSE << bytes[n] >> \o UnstuffFrom(bytes, n + 1)

\* the bits of a byte sequence, first bit first
BitsOfBytes(bytes) ==
    [k \in 1 .. 8 * Len(bytes) |-> (bytes[((k - 1) \div 8) + 1] \div Pow2(7 - ((k - 1) % 8))) % 2]

\* the pending bits: the top wCnt bits of the 24-bit accumulator
PendingBits == [k \in 1 .. wCnt |-> (wBuf \div Pow2(24 - k)) % 2]

Emitted == BitsOfBytes(UnstuffFrom(wBytes, 1))

\* C14: after every writeBits call fewer than 8 bits are pending, and the bytes
\* written (stuffed zeros removed) followed by the pending bits are the bits of
\* all codes written, in order; after the fill write the bits of all codes
\* written before it are in the bytes written, followed by fill bits only.
C14_NoBitLost ==
    /\ wCnt \in 0 .. 7
    /\ wpc = "writing" => Emitted \o PendingBits = wBits
    /\ wpc = "filled" =>
          /\ Len(wBits) <= Len(Emitted)
          /\ Emitted \o PendingBits = wBits \o << 1, 1, 1, 1, 1, 1, 1 >>

\* three codes of 1, 16 and 8 bits, the fill write: a stuffed 0xFF was written
\* and the last code bits left with the fill's byte
C14_Witness ==
    /\ wpc = "filled" /\ nwrites = 3
    /\ wBits = << 0 >> \o [k \in 1 .. 16 |-> 1] \o << 0, 1, 0, 1, 0, 1, 0, 1 >>
    /\ wBytes = << 127, 255, 0, 170, 255, 0 >>
    /\ wCnt = 0

=============================================================================
